---- MODULE Spec2Model ----
(***************************************************************************)
(* Stock operations and sale completion of the pharmacy back end.          *)
(*                                                                         *)
(* The database is modelled at READ COMMITTED: a statement issued on the   *)
(* pooled handle `db` sees and changes the committed tables at once; a     *)
(* statement issued on a knex transaction handle is kept in the caller's   *)
(* `trx` / pending rows until commit, and an UPDATE of a batch row waits   *)
(* while another open transaction holds an uncommitted update of that row. *)
(* Every `await` of the source is a step other requests can interleave     *)
(* with.                                                                   *)
(***************************************************************************)
EXTENDS Integers, Sequences, FiniteSets, TLC

\* ----------------------------------------------------------------- bounds
MaxQty == 2
MaxInitQty == 2
MaxCalls == 2
MaxTime == 2
MaxAuditLogs == 3

\* ------------------------------------------------------------ static data
Procs == {"p1", "p2"}
Products == {"P1", "P2"}
BatchIds == {"B1", "B2", "B3"}
MissingBatch == "BX"
NoBatch == ""
SaleIds == {"S1"}
\* a second sale, of one item
AllSaleIds == {"S1", "S2"}
\* sales of earlier in the day, whose rows only hold their sale_number
OldSaleIds == {"O1", "O2"}
NoRef == ""
\* the reasons a caller gives to cancelSale
Reasons == {"R1", "R2"}
CancelDescription(reason) == "Sale cancelled: " \o reason
MissingProduct == "PX"

OperationTypes == {"SALE", "PURCHASE", "ADJUSTMENT", "TRANSFER"}
Quantities == 1..MaxQty
ReserveQuantities == 1..(MaxQty + 1)
ExpiryWarningDays == 30

\* product_id and expiry_date of the batch rows present at start
BatchProduct == [b \in BatchIds |-> IF b = "B3" THEN "P2" ELSE "P1"]
BatchExpiry == [b \in BatchIds |-> IF b = "B2" THEN 2 ELSE 1]

\* sale_items rows of the sales present at start (product, optional batch, quantity)
SaleItems ==
  [s \in AllSaleIds |->
     IF s = "S1"
       THEN << [product_id |-> "P1", batch_id |-> "B1", quantity |-> 1],
               [product_id |-> "P2", batch_id |-> "B3", quantity |-> 2] >>
       ELSE << [product_id |-> "P1", batch_id |-> "B1", quantity |-> 1] >>]

VARIABLES
  batches,           \* table batches: id -> row
  stock_operations,  \* table stock_operations (committed rows)
  stock_movements,   \* table stock_movements (committed rows)
  sales,             \* table sales: id -> status
  payments,          \* table payments: the payment row of each sale -> status
  sale_audit_logs,   \* table sale_audit_logs, in insertion order
  customers,         \* table customers: the patient_phone of each row
  sale_numbers,      \* column sales.sale_number: rows (id, day, sequence)
  proc,              \* each request's position and locals
  uuid,              \* ids handed out so far (uuidv4 yields a fresh id each call)
  returned,          \* operation ids returned by executeStockOperation
  thrown,            \* operation ids of executeStockOperation calls that threw
  stock_reservations, \* table stock_reservations (committed rows)
  now,               \* the current time, in days
  sale_items         \* table sale_items: the sales whose item rows exist

vars == << batches, stock_operations, stock_movements, sales, payments,
           sale_audit_logs, proc, uuid, returned, thrown, stock_reservations, now,
           sale_items, customers, sale_numbers >>

\* ---------------------------------------------------------------- helpers
Min(a, b) == IF a < b THEN a ELSE b

RECURSIVE SumQty(_, _)
SumQty(S, f) ==
  IF S = {} THEN 0
  ELSE LET x == CHOOSE y \in S : TRUE IN f[x] + SumQty(S \ {x}, f)

RECURSIVE SumRows(_)
SumRows(S) ==
  IF S = {} THEN 0
  ELSE LET x == CHOOSE y \in S : TRUE IN x.quantity_change + SumRows(S \ {x})

current_quantity == [b \in BatchIds |-> batches[b].current_quantity]

\* a slot of the batches table that holds no row has no product
NoProduct == ""
\* Batch.findById finds a row, active or not
Batch_findById(batchId) ==
  batchId \in BatchIds /\ batches[batchId].product_id # NoProduct

\* ORDER BY expiry_date ASC of a set of batch ids
RECURSIVE OrderByExpiry(_)
OrderByExpiry(S) ==
  IF S = {} THEN << >>
  ELSE LET b == CHOOSE x \in S : \A y \in S : batches[x].expiry_date <= batches[y].expiry_date
       IN << b >> \o OrderByExpiry(S \ {b})

\* Batch.findByProductId: active batches of the product, earliest expiry first
findByProductId(productId) ==
  OrderByExpiry({b \in BatchIds : batches[b].product_id = productId /\ batches[b].is_active})

\* StockManagementService.getCurrentStock
getCurrentStock(productId) ==
  SumQty({b \in BatchIds : batches[b].product_id = productId /\ batches[b].is_active},
         current_quantity)

Subtracts(operationType) == operationType \in {"SALE", "TRANSFER"}
Adds(operationType) == operationType \in {"PURCHASE", "ADJUSTMENT"}

\* executeStockOperation: the product's stock level after the operation
NewStock(currentStock, quantity, operationType) ==
  IF Subtracts(operationType) THEN currentStock - quantity
  ELSE IF Adds(operationType) THEN currentStock + quantity
  ELSE currentStock

\* mutant: only a SALE subtracts
NewQuantity_TransferAdds(old, quantity, operationType) ==
  IF operationType = "SALE" THEN old - quantity ELSE old + quantity

\* updateBatchStock: the batch's quantity after the operation
NewQuantity(old, quantity, operationType) ==
  IF Subtracts(operationType) THEN old - quantity
  ELSE IF Adds(operationType) THEN old + quantity
  ELSE old

\* StockManagementService.getMovementType
getMovementType(operationType) ==
  CASE operationType = "SALE" -> "OUT"
    [] operationType = "PURCHASE" -> "IN"
    [] operationType = "ADJUSTMENT" -> "ADJUSTMENT"
    [] operationType = "TRANSFER" -> "TRANSFER"
    [] OTHER -> "ADJUSTMENT"

\* the rows of get_fifo_batches: batches in the given order, with what each
\* holds, as far as needed to cover the quantity
RECURSIVE Candidates(_, _)
Candidates(ids, quantity) ==
  IF ids = << >> \/ quantity <= 0 THEN << >>
  ELSE << [batch_id |-> Head(ids),
           available_quantity |-> batches[Head(ids)].current_quantity] >>
       \o Candidates(Tail(ids), quantity - batches[Head(ids)].current_quantity)

EligibleBatches(productId) ==
  {b \in BatchIds : /\ batches[b].product_id = productId
                    /\ batches[b].is_active
                    /\ batches[b].current_quantity > 0}

\* StockManagementService.getFIFOBatches (get_fifo_batches of the database):
\* the active batches of the product with current_quantity > 0, earliest expiry first
getFIFOBatches(productId, quantity) ==
  Candidates(OrderByExpiry(EligibleBatches(productId)), quantity)

\* ------------------------------------------------------- request locals
NoOperation ==
  [productId |-> "", batchId |-> NoBatch, quantity |-> 0, operationType |-> "",
   referenceId |-> NoRef]

NoReservation == [productId |-> "", batchId |-> NoBatch, quantity |-> 0, expiresAt |-> 0]

NoValidation == [isValid |-> FALSE, errors |-> << >>, warnings |-> << >>]

Idle ==
  [pc |-> "idle", result |-> "",
   operation |-> NoOperation, operationId |-> 0, currentStock |-> 0, newStock |-> 0,
   via |-> "", fifo |-> << >>, remainingQuantity |-> 0,
   batchId |-> "", quantity |-> 0, operationType |-> "", newQuantity |-> 0,
   trx |-> {},
   saleId |-> "", items |-> << >>, before |-> [b \in BatchIds |-> 0],
   reservation |-> NoReservation, validation |-> NoValidation, availableStock |-> 0,
   reservationId |-> 0, count |-> 0, startedAt |-> 0, reason |-> "",
   customer |-> "", attempts |-> 0, saleNumber |-> 0, day |-> 0, movementId |-> 0]

\* the request is over: `result` is "ok" or the message of the error thrown;
\* a rollback discards the updates held in the transaction
Finished(l, result) == [l EXCEPT !.pc = "done", !.result = result, !.trx = {}]

\* requests are identical: a new one takes the first free slot
FirstFree(p) == proc[p].pc = "idle" /\ (p = "p2" => proc["p1"].pc # "idle")
\* rows locked by open transactions of other requests
LockedByOther(p, b) == \E q \in Procs \ {p} : \E u \in proc[q].trx : u.id = b

\* ------------------------------------------------------------------ Init
\* the batch rows were written by createBatch (current_quantity = initial_quantity);
\* the only batch of P2 may have been deactivated since
Init ==
  /\ batches \in
       { [b \in BatchIds |->
            [product_id |-> BatchProduct[b], expiry_date |-> BatchExpiry[b],
             initial_quantity |-> q[b], current_quantity |-> q[b],
             is_active |-> (b = "B3" => a)]]
         : q \in {f \in [BatchIds -> 1..MaxInitQty] : f["B1"] = 1 /\ f["B2"] = MaxInitQty},
           a \in BOOLEAN }
  /\ stock_operations = {}
  /\ stock_movements = {}
  /\ sales = [s \in SaleIds |-> "PENDING"]
  /\ payments = [s \in SaleIds |-> "PENDING"]
  /\ sale_audit_logs =
       << [sale_id |-> "S1", action |-> "CREATED", description |-> "Sale created"] >>
  /\ proc = [p \in Procs |-> Idle]
  /\ uuid = 0
  /\ returned = {}
  /\ thrown = {}
  /\ stock_reservations = {}
  /\ now = 0
  /\ sale_items = SaleIds
  /\ customers = {}
  /\ sale_numbers = {[id |-> s, day |-> 0, sequence |-> 1] : s \in SaleIds}


\* ------------------------------------------- executeStockOperation, parts
\* mutant: the loop takes all a batch holds, not what is still needed
LoopHead_NoMin(l) ==
  IF l.fifo # << >> /\ l.remainingQuantity > 0
    THEN [l EXCEPT !.batchId = Head(l.fifo).batch_id,
                   !.quantity = Head(l.fifo).available_quantity,
                   !.pc = "updateBatchStock"]
    ELSE IF l.remainingQuantity > 0
      THEN Finished(l, "Insufficient stock across all batches")
      ELSE [l EXCEPT !.pc = "insertOperation"]

\* the for-loop of updateProductStock: the next batch, or the end of the loop
LoopHead(l) ==
  IF l.fifo # << >> /\ l.remainingQuantity > 0
    THEN [l EXCEPT !.batchId = Head(l.fifo).batch_id,
                   !.quantity = Min(Head(l.fifo).available_quantity, l.remainingQuantity),
                   !.pc = "updateBatchStock"]
    ELSE IF l.remainingQuantity > 0
      THEN Finished(l, "Insufficient stock across all batches")
      ELSE [l EXCEPT !.pc = "insertOperation"]

\* mutant: executeStockOperation without its check of the new stock level
Begin_NoCheck(l, operation, operationId) ==
  LET currentStock == getCurrentStock(operation.productId)
      newStock == NewStock(currentStock, operation.quantity, operation.operationType)
      m == [l EXCEPT !.operation = operation, !.operationId = operationId,
                     !.currentStock = currentStock, !.newStock = newStock,
                     !.operationType = operation.operationType,
                     !.quantity = operation.quantity, !.trx = {}]
  IN IF operation.batchId # NoBatch
       THEN [m EXCEPT !.via = "batch", !.batchId = operation.batchId,
                      !.pc = "updateBatchStock"]
       ELSE IF Subtracts(operation.operationType)
         THEN [m EXCEPT !.via = "fifo", !.pc = "getFIFOBatches"]
         ELSE [m EXCEPT !.via = "purchase", !.pc = "handlePurchaseStock"]

\* executeStockOperation up to its dispatch: begin, read the product's stock,
\* compute and validate the new level
Begin(l, operation, operationId) ==
  LET currentStock == getCurrentStock(operation.productId)
      newStock == NewStock(currentStock, operation.quantity, operation.operationType)
      m == [l EXCEPT !.operation = operation, !.operationId = operationId,
                     !.currentStock = currentStock, !.newStock = newStock,
                     !.operationType = operation.operationType,
                     !.quantity = operation.quantity, !.trx = {}]
  IN IF newStock < 0
       THEN Finished(m, "Insufficient stock for operation")
       ELSE IF operation.batchId # NoBatch
         THEN [m EXCEPT !.via = "batch", !.batchId = operation.batchId,
                        !.pc = "updateBatchStock"]
         ELSE IF Subtracts(operation.operationType)
           THEN [m EXCEPT !.via = "fifo", !.pc = "getFIFOBatches"]
           ELSE [m EXCEPT !.via = "purchase", !.pc = "handlePurchaseStock"]

\* mutant: updateBatchStock without its check of newQuantity
ReadBatch_NoCheck(l) ==
  IF ~Batch_findById(l.batchId)
    THEN Finished(l, "Batch not found")
    ELSE [l EXCEPT !.newQuantity =
                     NewQuantity(batches[l.batchId].current_quantity, l.quantity,
                                 l.operationType),
                   !.pc = "updateBatch"]

\* updateBatchStock up to its UPDATE: read the batch, compute and validate
ReadBatch(l) ==
  IF ~Batch_findById(l.batchId)
    THEN Finished(l, "Batch not found")
    ELSE LET newQuantity ==
               NewQuantity(batches[l.batchId].current_quantity, l.quantity, l.operationType)
         IN IF newQuantity < 0
              THEN Finished(l, "Insufficient batch quantity")
              ELSE [l EXCEPT !.newQuantity = newQuantity, !.pc = "updateBatch"]

\* the UPDATE of updateBatchStock, held in the transaction, and what follows it
WriteBatch(l) ==
  LET m == [l EXCEPT !.trx = {u \in l.trx : u.id # l.batchId}
                              \cup {[id |-> l.batchId, current_quantity |-> l.newQuantity]}]
  IN IF l.via = "fifo"
       THEN LoopHead([m EXCEPT !.remainingQuantity = l.remainingQuantity - l.quantity,
                               !.fifo = Tail(l.fifo)])
       ELSE [m EXCEPT !.pc = "insertOperation"]

OperationRow(l) ==
  [id |-> l.operationId, operation_type |-> l.operation.operationType,
   product_id |-> l.operation.productId, batch_id |-> l.operation.batchId,
   quantity_change |-> l.operation.quantity, previous_quantity |-> l.currentStock,
   new_quantity |-> l.newStock, reference_id |-> l.operation.referenceId]

MovementRow(l) ==
  [id |-> l.operationId, product_id |-> l.operation.productId,
   batch_id |-> l.operation.batchId,
   movement_type |-> getMovementType(l.operation.operationType),
   quantity |-> l.operation.quantity, reference_id |-> l.operation.referenceId]

\* the batches table once the transaction's updates are committed
Committed(trx) ==
  [b \in BatchIds |->
     IF \E u \in trx : u.id = b
       THEN [batches[b] EXCEPT
               !.current_quantity = (CHOOSE u \in trx : u.id = b).current_quantity]
       ELSE batches[b]]

\* where the caller goes on once executeStockOperation has returned
\* the loop of completeSale leaving after its first item
AfterExecute_FirstOnly(l) ==
  IF l.saleId = "" THEN Finished(l, "ok")
  ELSE [Idle EXCEPT !.saleId = l.saleId, !.before = l.before, !.items = << >>,
                    !.pc = "updateStatus"]

AfterExecute(l) ==
  IF l.saleId = "" THEN Finished(l, "ok")
  ELSE [Idle EXCEPT !.saleId = l.saleId, !.before = l.before, !.items = Tail(l.items),
                    !.pc = IF Tail(l.items) = << >> THEN "updateStatus" ELSE "saleItem"]

InExecute(l) ==
  l.pc \in {"updateBatchStock", "updateBatch", "getFIFOBatches", "handlePurchaseStock",
            "insertOperation", "createMovement", "commit"}

\* one step of request p to locals m; a finished executeStockOperation that
\* did not return has thrown (its catch block rolls the transaction back)
Goto(p, m) ==
  /\ proc' = [proc EXCEPT ![p] = m]
  /\ thrown' = IF m.pc = "done" /\ m.result # "ok"
                 THEN thrown \cup {proc[p].operationId} ELSE thrown

\* ----------------------------------------- executeStockOperation, steps
executeStockOperation(p) ==
  /\ FirstFree(p)
  /\ uuid < MaxCalls
  /\ \E productId \in Products, batchId \in BatchIds \cup {NoBatch, MissingBatch},
        quantity \in Quantities, operationType \in OperationTypes :
       LET operation == [productId |-> productId, batchId |-> batchId,
                         quantity |-> quantity, operationType |-> operationType,
                         referenceId |-> NoRef]
           m == Begin([Idle EXCEPT !.before = current_quantity], operation, uuid + 1)
       IN /\ proc' = [proc EXCEPT ![p] = m]
          /\ thrown' = IF m.pc = "done" THEN thrown \cup {uuid + 1} ELSE thrown
  /\ uuid' = uuid + 1
  /\ UNCHANGED << customers, sale_numbers, sale_items, stock_reservations, now, batches,
                  stock_operations, stock_movements, sales, payments, sale_audit_logs,
                  returned >>

updateBatchStock(p) ==
  /\ proc[p].pc = "updateBatchStock"
  /\ Goto(p, ReadBatch(proc[p]))
  /\ UNCHANGED << customers, sale_numbers, sale_items, stock_reservations, now, batches,
                  stock_operations, stock_movements, sales, payments, sale_audit_logs,
                  uuid, returned >>

updateBatch(p) ==
  /\ proc[p].pc = "updateBatch"
  /\ ~LockedByOther(p, proc[p].batchId)
  /\ Goto(p, WriteBatch(proc[p]))
  /\ UNCHANGED << customers, sale_numbers, sale_items, stock_reservations, now, batches,
                  stock_operations, stock_movements, sales, payments, sale_audit_logs,
                  uuid, returned >>

updateProductStock(p) ==
  /\ proc[p].pc = "getFIFOBatches"
  /\ LET l == proc[p]
     IN Goto(p, LoopHead([l EXCEPT
                  !.fifo = getFIFOBatches(l.operation.productId, l.operation.quantity),
                  !.remainingQuantity = l.operation.quantity]))
  /\ UNCHANGED << customers, sale_numbers, sale_items, stock_reservations, now, batches,
                  stock_operations, stock_movements, sales, payments, sale_audit_logs,
                  uuid, returned >>

\* mutant: handlePurchaseStock does nothing when the product has no batch
handlePurchaseStock_NoThrow(p) ==
  /\ proc[p].pc = "handlePurchaseStock"
  /\ LET l == proc[p]
         found == findByProductId(l.operation.productId)
     IN Goto(p, IF Len(found) > 0
                  THEN [l EXCEPT !.batchId = found[1], !.quantity = l.operation.quantity,
                                 !.operationType = "PURCHASE", !.pc = "updateBatchStock"]
                  ELSE [l EXCEPT !.pc = "insertOperation"])
  /\ UNCHANGED << customers, sale_numbers, sale_items, stock_reservations, now, batches,
                  stock_operations, stock_movements, sales, payments, sale_audit_logs,
                  uuid, returned >>

handlePurchaseStock(p) ==
  /\ proc[p].pc = "handlePurchaseStock"
  /\ LET l == proc[p]
         found == findByProductId(l.operation.productId)
     IN Goto(p, IF Len(found) > 0
                  THEN [l EXCEPT !.batchId = found[1], !.quantity = l.operation.quantity,
                                 !.operationType = "PURCHASE", !.pc = "updateBatchStock"]
                  ELSE Finished(l, "Purchase stock handling requires batch creation - not implemented"))
  /\ UNCHANGED << customers, sale_numbers, sale_items, stock_reservations, now, batches,
                  stock_operations, stock_movements, sales, payments, sale_audit_logs,
                  uuid, returned >>

insertOperation(p) ==
  /\ proc[p].pc = "insertOperation"
  /\ Goto(p, [proc[p] EXCEPT !.pc = "createMovement"])
  /\ UNCHANGED << customers, sale_numbers, sale_items, stock_reservations, now, batches,
                  stock_operations, stock_movements, sales, payments, sale_audit_logs,
                  uuid, returned >>

createMovement(p) ==
  /\ proc[p].pc = "createMovement"
  /\ stock_movements' = stock_movements \cup {MovementRow(proc[p])}
  /\ Goto(p, [proc[p] EXCEPT !.pc = "commit"])
  /\ UNCHANGED << customers, sale_numbers, sale_items, stock_reservations, now, batches,
                  stock_operations, sales, payments, sale_audit_logs, uuid, returned >>

commit(p) ==
  /\ proc[p].pc = "commit"
  /\ batches' = Committed(proc[p].trx)
  /\ stock_operations' = stock_operations \cup {OperationRow(proc[p])}
  /\ returned' = returned \cup {proc[p].operationId}
  /\ proc' = [proc EXCEPT ![p] = AfterExecute(proc[p])]
  /\ UNCHANGED << customers, sale_numbers, sale_items, stock_reservations, now,
                  stock_movements, sales, payments, sale_audit_logs, uuid, thrown >>

\* a statement or the commit is rejected by the database: the catch block
\* rolls the transaction back and rethrows
databaseError(p) ==
  /\ proc[p].pc \in {"updateBatch", "insertOperation", "createMovement", "commit"}
  /\ Goto(p, Finished(proc[p], "database error"))
  /\ UNCHANGED << customers, sale_numbers, sale_items, stock_reservations, now, batches,
                  stock_operations, stock_movements, sales, payments, sale_audit_logs,
                  uuid, returned >>

\* ------------------------------------------------------------ completeSale
\* createSale has returned the sale: its id, made by uuidv4 in SalesModel.create,
\* is known to callers
Created(saleId) ==
  \E i \in 1..Len(sale_audit_logs) :
    sale_audit_logs[i] =
      [sale_id |-> saleId, action |-> "CREATED", description |-> "Sale created"]

\* the items SalesModel.findById returns with the sale
findItems(saleId) == IF saleId \in sale_items THEN SaleItems[saleId] ELSE << >>

\* mutant: completeSale without its check of the sale's status
completeSale_NoStatusCheck(p) ==
  /\ FirstFree(p)
  /\ \E saleId \in DOMAIN sales :
       /\ sales[saleId] = "NONE" \/ Created(saleId)
       /\ proc' = [proc EXCEPT ![p] =
         [Idle EXCEPT !.saleId = saleId, !.before = current_quantity,
                      !.items = findItems(saleId),
                      !.pc = IF findItems(saleId) = << >> THEN "updateStatus"
                             ELSE "saleItem"]]
  /\ UNCHANGED << customers, sale_numbers, sale_items, stock_reservations, now, batches,
                  stock_operations, stock_movements, sales, payments, sale_audit_logs,
                  uuid, returned, thrown >>

completeSale(p) ==
  /\ FirstFree(p)
  /\ \E saleId \in DOMAIN sales :
       /\ sales[saleId] = "NONE" \/ Created(saleId)
       /\ proc' = [proc EXCEPT ![p] =
         LET l == [Idle EXCEPT !.saleId = saleId, !.before = current_quantity]
         IN IF sales[saleId] = "NONE" THEN Finished(l, "Sale not found")
            ELSE IF sales[saleId] # "PENDING"
              THEN Finished(l, "Sale is not in pending status")
              ELSE [l EXCEPT !.items = findItems(saleId),
                             !.pc = IF findItems(saleId) = << >> THEN "updateStatus"
                                    ELSE "saleItem"]]
  /\ UNCHANGED << customers, sale_numbers, sale_items, stock_reservations, now, batches,
                  stock_operations, stock_movements, sales, payments, sale_audit_logs,
                  uuid, returned, thrown >>

saleItem(p) ==
  /\ proc[p].pc = "saleItem"
  /\ uuid < MaxCalls
  /\ LET l == proc[p]
         item == Head(l.items)
         operation == [productId |-> item.product_id, batchId |-> item.batch_id,
                       quantity |-> item.quantity, operationType |-> "SALE",
                       referenceId |-> l.saleId]
         m == Begin(l, operation, uuid + 1)
     IN /\ proc' = [proc EXCEPT ![p] = m]
        /\ thrown' = IF m.pc = "done" THEN thrown \cup {uuid + 1} ELSE thrown
  /\ uuid' = uuid + 1
  /\ UNCHANGED << customers, sale_numbers, sale_items, stock_reservations, now, batches,
                  stock_operations, stock_movements, sales, payments, sale_audit_logs,
                  returned >>

updateStatus(p) ==
  /\ proc[p].pc = "updateStatus"
  /\ sales' = [sales EXCEPT ![proc[p].saleId] = "COMPLETED"]
  /\ proc' = [proc EXCEPT ![p].pc = "updatePayments"]
  /\ UNCHANGED << customers, sale_numbers, sale_items, stock_reservations, now, batches,
                  stock_operations, stock_movements, payments, sale_audit_logs, uuid,
                  returned, thrown >>

updatePayments(p) ==
  /\ proc[p].pc = "updatePayments"
  /\ payments' = [payments EXCEPT ![proc[p].saleId] =
                                  IF @ = "NONE" THEN @ ELSE "COMPLETED"]
  /\ proc' = [proc EXCEPT ![p].pc = "createAuditLog"]
  /\ UNCHANGED << customers, sale_numbers, sale_items, stock_reservations, now, batches,
                  stock_operations, stock_movements, sales, sale_audit_logs, uuid,
                  returned, thrown >>

createAuditLog(p) ==
  /\ proc[p].pc = "createAuditLog"
  /\ sale_audit_logs' =
       Append(sale_audit_logs, [sale_id |-> proc[p].saleId, action |-> "COMPLETED",
                                description |-> "Sale completed and stock updated"])
  /\ proc' = [proc EXCEPT ![p] = Finished(proc[p], "ok")]
  /\ UNCHANGED << customers, sale_numbers, sale_items, stock_reservations, now, batches,
                  stock_operations, stock_movements, sales, payments, uuid, returned,
                  thrown >>

\* the response (or the error) is handed to the caller and the request ends
respond(p) ==
  /\ proc[p].pc = "done"
  /\ proc' = [proc EXCEPT ![p] = Idle]
  /\ UNCHANGED << customers, sale_numbers, sale_items, stock_reservations, now, batches,
                  stock_operations, stock_movements, sales, payments, sale_audit_logs,
                  uuid, returned, thrown >>

\* ------------------------------------------------------------ createSale
\* the customer of a sale request: none, or a patient_phone
NoCustomer == ""
Phones == {"C1"}

\* table products; Product.findById yields no row for any other id
InactiveProduct == "PI"
products ==
  [i \in Products \cup {InactiveProduct} |->
     [is_active |-> (i # InactiveProduct), selling_price |-> 1]]

\* item lists a request may carry that validation refuses: an unknown product,
\* an inactive product, a batch of another product, a batch that does not exist
InvalidItems ==
  { << [product_id |-> MissingProduct, batch_id |-> "B1", quantity |-> 1] >>,
    << [product_id |-> InactiveProduct, batch_id |-> NoBatch, quantity |-> 1] >>,
    << [product_id |-> "P2", batch_id |-> "B1", quantity |-> 1] >>,
    << [product_id |-> "P1", batch_id |-> MissingBatch, quantity |-> 1] >> }

\* item validation that also asks for the stock of the batch
ValidateItem_StockCheck(item) ==
  IF item.product_id \notin DOMAIN products THEN "Product not found"
  ELSE IF ~products[item.product_id].is_active THEN "Product is not active"
  ELSE IF /\ item.batch_id # NoBatch
          /\ \/ ~Batch_findById(item.batch_id)
             \/ batches[item.batch_id].product_id # item.product_id
    THEN "Invalid batch for product"
  ELSE IF /\ item.batch_id # NoBatch
          /\ batches[item.batch_id].current_quantity < item.quantity
    THEN "Insufficient stock"
  ELSE "ok"

\* the message validateSaleItemsWithoutStockCheck throws for an item, or "ok"
ValidateItem(item) ==
  IF item.product_id \notin DOMAIN products THEN "Product not found"
  ELSE IF ~products[item.product_id].is_active THEN "Product is not active"
  ELSE IF /\ item.batch_id # NoBatch
          /\ \/ ~Batch_findById(item.batch_id)
             \/ batches[item.batch_id].product_id # item.product_id
    THEN "Invalid batch for product"
  ELSE IF products[item.product_id].selling_price <= 0 THEN "Invalid price for product"
  ELSE "ok"

RECURSIVE validateSaleItemsWithoutStockCheck(_)
validateSaleItemsWithoutStockCheck(items) ==
  IF items = << >> THEN "ok"
  ELSE IF ValidateItem(Head(items)) # "ok" THEN ValidateItem(Head(items))
  ELSE validateSaleItemsWithoutStockCheck(Tail(items))

\* createSale up to its first write: the id the sale will get is fresh, the
\* customer is looked up by phone
createSale(p) ==
  /\ FirstFree(p)
  /\ \E saleId \in DOMAIN sales, customer \in Phones \cup {NoCustomer} :
     \E items \in {SaleItems[saleId]} \cup InvalidItems :
       /\ sales[saleId] = "NONE"
       /\ \A q \in Procs : proc[q].saleId # saleId
       /\ proc' = [proc EXCEPT ![p] =
            [Idle EXCEPT !.via = "createSale", !.saleId = saleId,
                         !.customer = customer, !.items = items,
                         !.pc = IF customer # NoCustomer
                                   /\ ~\E c \in customers : c.patient_phone = customer
                                  THEN "createCustomer" ELSE "validateItems"]]
  /\ UNCHANGED << customers, sale_numbers, batches, stock_operations, stock_movements,
                  sales, payments, sale_audit_logs, uuid, returned, thrown,
                  stock_reservations, now, sale_items >>

\* CustomerModel.create; the row is tagged with the call it was written by
createCustomer(p) ==
  /\ proc[p].pc = "createCustomer"
  /\ customers' =
       customers \cup {[id |-> proc[p].saleId, patient_phone |-> proc[p].customer]}
  /\ proc' = [proc EXCEPT ![p].pc = "validateItems"]
  /\ UNCHANGED << sale_numbers, batches, stock_operations, stock_movements, sales,
                  payments, sale_audit_logs, uuid, returned, thrown,
                  stock_reservations, now, sale_items >>

validateItems(p) ==
  /\ proc[p].pc = "validateItems"
  /\ LET message == validateSaleItemsWithoutStockCheck(proc[p].items)
     IN proc' = [proc EXCEPT ![p] =
          IF message # "ok" THEN Finished(proc[p], message)
          ELSE [proc[p] EXCEPT !.pc = "generateSaleNumber", !.attempts = 0]]
  /\ UNCHANGED << customers, sale_numbers, batches, stock_operations, stock_movements,
                  sales, payments, sale_audit_logs, uuid, returned, thrown,
                  stock_reservations, now, sale_items >>

\* the decimal digits of n, and n as generateSaleNumber writes it
RECURSIVE Digits(_)
Digits(n) == IF n < 10 THEN << n >> ELSE Append(Digits(n \div 10), n % 10)

PadWidth == 4
padStart(d) ==
  IF Len(d) >= PadWidth THEN d ELSE [i \in 1..(PadWidth - Len(d)) |-> 0] \o d

\* string order of two digit strings
RECURSIVE StringLess(_, _)
StringLess(a, b) ==
  IF b = << >> THEN FALSE
  ELSE IF a = << >> THEN TRUE
  ELSE IF Head(a) # Head(b) THEN Head(a) < Head(b)
  ELSE StringLess(Tail(a), Tail(b))

\* the sequence generateSaleNumber yields: 1, or one more than the sequence of
\* the row of today whose sale_number is last in string order
NextSequence(day) ==
  LET today == {r \in sale_numbers : r.day = day}
  IN IF today = {} THEN 1
     ELSE LET lastSale ==
                CHOOSE r \in today :
                  \A o \in today :
                    ~StringLess(padStart(Digits(r.sequence)), padStart(Digits(o.sequence)))
          IN lastSale.sequence + 1

MaxAttempts == 3

generateSaleNumber(p) ==
  /\ proc[p].pc = "generateSaleNumber"
  /\ proc' = [proc EXCEPT ![p].pc = "insertSale", ![p].day = now,
                          ![p].saleNumber = NextSequence(now)]
  /\ UNCHANGED << customers, sale_numbers, batches, stock_operations, stock_movements,
                  sales, payments, sale_audit_logs, uuid, returned, thrown,
                  stock_reservations, now, sale_items >>

Duplicate(l) ==
  \E r \in sale_numbers : r.day = l.day /\ r.sequence = l.saleNumber

\* the insert without the unique index on sale_number
insertSale_NoUnique(p) ==
  /\ proc[p].pc = "insertSale"
  /\ LET l == proc[p]
     IN /\ sales' = [sales EXCEPT ![l.saleId] = "PENDING"]
        /\ sale_numbers' = sale_numbers \cup
             {[id |-> l.saleId, day |-> l.day, sequence |-> l.saleNumber]}
        /\ proc' = [proc EXCEPT ![p].pc = "createItems"]
  /\ UNCHANGED << customers, batches, stock_operations, stock_movements, payments,
                  sale_audit_logs, uuid, returned, thrown, stock_reservations, now,
                  sale_items >>

\* the insert of SalesModel.create and its catch block: a duplicate sale_number
\* is retried with a new number while attempts < maxAttempts
insertSale(p) ==
  /\ proc[p].pc = "insertSale"
  /\ LET l == proc[p]
     IN IF Duplicate(l)
          THEN /\ proc' = [proc EXCEPT ![p] =
                    IF l.attempts + 1 < MaxAttempts
                      THEN [l EXCEPT !.attempts = l.attempts + 1,
                                     !.pc = "generateSaleNumber"]
                      ELSE Finished([l EXCEPT !.attempts = l.attempts + 1],
                                    "duplicate key value violates unique constraint")]
               /\ UNCHANGED << sales, sale_numbers >>
          ELSE /\ sales' = [sales EXCEPT ![l.saleId] = "PENDING"]
               /\ sale_numbers' = sale_numbers \cup
                    {[id |-> l.saleId, day |-> l.day, sequence |-> l.saleNumber]}
               /\ proc' = [proc EXCEPT ![p].pc = "createItems"]
  /\ UNCHANGED << customers, batches, stock_operations, stock_movements, payments,
                  sale_audit_logs, uuid, returned, thrown, stock_reservations, now,
                  sale_items >>

createItems(p) ==
  /\ proc[p].pc = "createItems"
  /\ sale_items' = sale_items \cup {proc[p].saleId}
  /\ proc' = [proc EXCEPT ![p].pc = "createPayment"]
  /\ UNCHANGED << customers, sale_numbers, batches, stock_operations, stock_movements,
                  sales, payments, sale_audit_logs, uuid, returned, thrown,
                  stock_reservations, now >>

createPayment(p) ==
  /\ proc[p].pc = "createPayment"
  /\ payments' = [payments EXCEPT ![proc[p].saleId] = "PENDING"]
  /\ proc' = [proc EXCEPT ![p].pc = "createdAuditLog"]
  /\ UNCHANGED << customers, sale_numbers, batches, stock_operations, stock_movements,
                  sales, sale_audit_logs, uuid, returned, thrown, stock_reservations,
                  now, sale_items >>

createdAuditLog(p) ==
  /\ proc[p].pc = "createdAuditLog"
  /\ sale_audit_logs' =
       Append(sale_audit_logs, [sale_id |-> proc[p].saleId, action |-> "CREATED",
                                description |-> "Sale created"])
  /\ proc' = [proc EXCEPT ![p] = Finished(proc[p], "ok")]
  /\ UNCHANGED << customers, sale_numbers, batches, stock_operations, stock_movements,
                  sales, payments, uuid, returned, thrown, stock_reservations, now,
                  sale_items >>

\* a statement of createSale is rejected by the database: the catch block
\* rolls back the transaction, which no statement was issued on, and rethrows
createSaleError(p) ==
  /\ proc[p].via = "createSale"
  /\ proc[p].pc \in {"createCustomer", "generateSaleNumber", "insertSale",
                     "createItems", "createPayment", "createdAuditLog"}
  /\ proc' = [proc EXCEPT ![p] = Finished(proc[p], "database error")]
  /\ UNCHANGED << customers, sale_numbers, batches, stock_operations, stock_movements,
                  sales, payments, sale_audit_logs, uuid, returned, thrown,
                  stock_reservations, now, sale_items >>

\* cancelSale that does not refuse a COMPLETED sale
cancelSale_NoCheck(p) ==
  /\ FirstFree(p)
  /\ Len(sale_audit_logs) < MaxAuditLogs
  /\ \E saleId \in DOMAIN sales, reason \in Reasons :
       /\ sales[saleId] = "NONE" \/ Created(saleId)
       /\ proc' = [proc EXCEPT ![p] =
         LET l == [Idle EXCEPT !.via = "cancelSale", !.saleId = saleId,
                               !.reason = reason]
         IN IF sales[saleId] = "NONE" THEN Finished(l, "Sale not found")
            ELSE [l EXCEPT !.pc = "cancelStatus"]]
  /\ UNCHANGED << customers, sale_numbers, batches, stock_operations, stock_movements,
                  sales, payments, sale_audit_logs, uuid, returned, thrown,
                  stock_reservations, now, sale_items >>

\* cancelSale up to its first write: read the sale, refuse a COMPLETED one
cancelSale(p) ==
  /\ FirstFree(p)
  /\ Len(sale_audit_logs) < MaxAuditLogs
  /\ \E saleId \in DOMAIN sales, reason \in Reasons :
       /\ sales[saleId] = "NONE" \/ Created(saleId)
       /\ proc' = [proc EXCEPT ![p] =
         LET l == [Idle EXCEPT !.via = "cancelSale", !.saleId = saleId,
                               !.reason = reason]
         IN IF sales[saleId] = "NONE" THEN Finished(l, "Sale not found")
            ELSE IF sales[saleId] = "COMPLETED"
              THEN Finished(l, "Cannot cancel completed sale")
              ELSE [l EXCEPT !.pc = "cancelStatus"]]
  /\ UNCHANGED << customers, sale_numbers, batches, stock_operations, stock_movements,
                  sales, payments, sale_audit_logs, uuid, returned, thrown,
                  stock_reservations, now, sale_items >>

cancelStatus(p) ==
  /\ proc[p].pc = "cancelStatus"
  /\ sales' = [sales EXCEPT ![proc[p].saleId] = "CANCELLED"]
  /\ proc' = [proc EXCEPT ![p].pc = "cancelPayments"]
  /\ UNCHANGED << customers, sale_numbers, batches, stock_operations, stock_movements,
                  payments, sale_audit_logs, uuid, returned, thrown, stock_reservations,
                  now, sale_items >>

cancelPayments(p) ==
  /\ proc[p].pc = "cancelPayments"
  /\ payments' = [payments EXCEPT ![proc[p].saleId] = IF @ = "NONE" THEN @ ELSE "FAILED"]
  /\ proc' = [proc EXCEPT ![p].pc = "cancelAuditLog"]
  /\ UNCHANGED << customers, sale_numbers, batches, stock_operations, stock_movements,
                  sales, sale_audit_logs, uuid, returned, thrown, stock_reservations,
                  now, sale_items >>

cancelAuditLog(p) ==
  /\ proc[p].pc = "cancelAuditLog"
  /\ sale_audit_logs' =
       Append(sale_audit_logs, [sale_id |-> proc[p].saleId, action |-> "CANCELLED",
                                description |-> CancelDescription(proc[p].reason)])
  /\ proc' = [proc EXCEPT ![p] = Finished(proc[p], "ok")]
  /\ UNCHANGED << customers, sale_numbers, batches, stock_operations, stock_movements,
                  sales, payments, uuid, returned, thrown, stock_reservations, now,
                  sale_items >>

\* ------------------------------------------------------------ reservations
\* get_available_stock of the database: the stock held in the product's active
\* batches minus the quantity of its reservations that have not expired
Reserved(productId) ==
  LET rows == {r \in stock_reservations : r.product_id = productId /\ r.expires_at > now}
  IN SumQty(rows, [r \in rows |-> r.quantity])

getAvailableStock(productId) == getCurrentStock(productId) - Reserved(productId)

Error(message, available, required) ==
  [message |-> message, available |-> available, required |-> required]

Result(errors, warnings) ==
  [isValid |-> Len(errors) = 0, errors |-> errors, warnings |-> warnings]

\* what reserveStock does with the result of validateStockAvailability
AfterValidation(l, validation) ==
  LET m == [l EXCEPT !.validation = validation]
  IN IF ~validation.isValid THEN Finished(m, "Stock validation failed")
     ELSE [m EXCEPT !.pc = "insertReservation"]

\* validateStockAvailability, Product.findById: a missing product ends the validation
CheckProduct(l) ==
  IF l.reservation.productId \notin Products
    THEN AfterValidation(l, Result(<< Error("Product not found or inactive", 0, 0) >>, << >>))
    ELSE [l EXCEPT !.pc = "getAvailableStock"]

\* mutant: the available stock must exceed the quantity
CheckStock_Inclusive(l) ==
  LET availableStock == getAvailableStock(l.reservation.productId)
      errors == IF availableStock <= l.reservation.quantity
                  THEN << Error("Insufficient stock", availableStock, l.reservation.quantity) >>
                  ELSE << >>
      m == [l EXCEPT !.availableStock = availableStock,
                     !.validation = Result(errors, << >>)]
  IN IF l.reservation.batchId # NoBatch THEN [m EXCEPT !.pc = "findBatch"]
     ELSE AfterValidation(m, m.validation)

\* validateStockAvailability, getAvailableStock and its comparison with the quantity
CheckStock(l) ==
  LET availableStock == getAvailableStock(l.reservation.productId)
      errors == IF availableStock < l.reservation.quantity
                  THEN << Error("Insufficient stock", availableStock, l.reservation.quantity) >>
                  ELSE << >>
      m == [l EXCEPT !.availableStock = availableStock,
                     !.validation = Result(errors, << >>)]
  IN IF l.reservation.batchId # NoBatch THEN [m EXCEPT !.pc = "findBatch"]
     ELSE AfterValidation(m, m.validation)

\* validateStockAvailability, Batch.findById and the checks of the batch; the
\* expiry date is read from the batch whether or not one was found
CheckBatch(l) ==
  LET batchId == l.reservation.batchId
      found == Batch_findById(batchId)
      errors ==
        l.validation.errors \o
          (IF ~found \/ ~batches[batchId].is_active
             THEN << Error("Batch not found or inactive", 0, 0) >>
             ELSE IF batches[batchId].current_quantity < l.reservation.quantity
               THEN << Error("Insufficient batch quantity",
                             batches[batchId].current_quantity, l.reservation.quantity) >>
               ELSE << >>)
  IN IF ~found THEN Finished(l, "TypeError")
     ELSE LET daysUntilExpiry == batches[batchId].expiry_date - now
          IN IF daysUntilExpiry <= 0
               THEN AfterValidation(l, Result(errors \o << Error("Batch has expired", 0, 0) >>,
                                              << >>))
               ELSE IF daysUntilExpiry <= ExpiryWarningDays
                 THEN AfterValidation(l, Result(errors, << daysUntilExpiry >>))
                 ELSE AfterValidation(l, Result(errors, << >>))

ReservationRow(l) ==
  [id |-> l.reservationId, product_id |-> l.reservation.productId,
   batch_id |-> l.reservation.batchId, quantity |-> l.reservation.quantity,
   expires_at |-> l.reservation.expiresAt]

reserveStock(p) ==
  /\ FirstFree(p)
  /\ uuid < MaxCalls
  /\ \E productId \in Products \cup {MissingProduct},
        batchId \in BatchIds \cup {NoBatch, MissingBatch}, quantity \in ReserveQuantities,
        expiresAt \in 1..MaxTime :
       proc' = [proc EXCEPT ![p] =
         CheckProduct([Idle EXCEPT !.via = "reserve", !.startedAt = now,
                                   !.reservation = [productId |-> productId,
                                                    batchId |-> batchId,
                                                    quantity |-> quantity,
                                                    expiresAt |-> expiresAt]])]
  /\ UNCHANGED << customers, sale_numbers, sale_items, batches, stock_operations,
                  stock_movements, sales, payments, sale_audit_logs, uuid, returned,
                  thrown, stock_reservations, now >>

checkAvailableStock(p) ==
  /\ proc[p].pc = "getAvailableStock"
  /\ proc' = [proc EXCEPT ![p] = CheckStock(proc[p])]
  /\ UNCHANGED << customers, sale_numbers, sale_items, batches, stock_operations,
                  stock_movements, sales, payments, sale_audit_logs, uuid, returned,
                  thrown, stock_reservations, now >>

checkBatch(p) ==
  /\ proc[p].pc = "findBatch"
  /\ proc' = [proc EXCEPT ![p] = CheckBatch(proc[p])]
  /\ UNCHANGED << customers, sale_numbers, sale_items, batches, stock_operations,
                  stock_movements, sales, payments, sale_audit_logs, uuid, returned,
                  thrown, stock_reservations, now >>

\* mutant: the reservation takes its quantity out of the product's first batch
insertReservation_Deducts(p) ==
  /\ proc[p].pc = "insertReservation"
  /\ uuid' = uuid + 1
  /\ proc' = [proc EXCEPT ![p].reservationId = uuid + 1, ![p].pc = "commitReservation"]
  /\ batches' = [batches EXCEPT !["B1"].current_quantity = @ - 1]
  /\ UNCHANGED << customers, sale_numbers, sale_items, stock_operations,
                  stock_movements, sales, payments, sale_audit_logs, returned, thrown,
                  stock_reservations, now >>

\* the INSERT of reserveStock, held in its transaction
insertReservation(p) ==
  /\ proc[p].pc = "insertReservation"
  /\ uuid' = uuid + 1
  /\ proc' = [proc EXCEPT ![p].reservationId = uuid + 1, ![p].pc = "commitReservation"]
  /\ UNCHANGED << customers, sale_numbers, sale_items, batches, stock_operations,
                  stock_movements, sales, payments, sale_audit_logs, returned, thrown,
                  stock_reservations, now >>

commitReservation(p) ==
  /\ proc[p].pc = "commitReservation"
  /\ stock_reservations' = stock_reservations \cup {ReservationRow(proc[p])}
  /\ proc' = [proc EXCEPT ![p] = Finished(proc[p], "ok")]
  /\ UNCHANGED << customers, sale_numbers, sale_items, batches, stock_operations,
                  stock_movements, sales, payments, sale_audit_logs, uuid, returned,
                  thrown, now >>

\* the INSERT or the commit is rejected: reserveStock rolls back and rethrows
reservationError(p) ==
  /\ proc[p].pc \in {"insertReservation", "commitReservation"}
  /\ proc' = [proc EXCEPT ![p] = Finished(proc[p], "database error")]
  /\ UNCHANGED << customers, sale_numbers, sale_items, batches, stock_operations,
                  stock_movements, sales, payments, sale_audit_logs, uuid, returned,
                  thrown, stock_reservations, now >>

\* mutant: the release deletes every reservation of the product
releaseStockReservation_ByProduct(p) ==
  /\ FirstFree(p)
  /\ \E reservationId \in 1..MaxCalls :
       /\ stock_reservations' =
            {r \in stock_reservations :
               \A x \in stock_reservations :
                 x.id = reservationId => r.product_id # x.product_id}
       /\ proc' = [proc EXCEPT ![p] =
            Finished([Idle EXCEPT !.via = "release", !.reservationId = reservationId], "ok")]
  /\ UNCHANGED << customers, sale_numbers, sale_items, batches, stock_operations,
                  stock_movements, sales, payments, sale_audit_logs, uuid, returned,
                  thrown, now >>

releaseStockReservation(p) ==
  /\ FirstFree(p)
  /\ \E reservationId \in 1..MaxCalls :
       /\ stock_reservations' = {r \in stock_reservations : r.id # reservationId}
       /\ proc' = [proc EXCEPT ![p] =
            Finished([Idle EXCEPT !.via = "release", !.reservationId = reservationId], "ok")]
  /\ UNCHANGED << customers, sale_numbers, sale_items, batches, stock_operations,
                  stock_movements, sales, payments, sale_audit_logs, uuid, returned,
                  thrown, now >>

\* mutant: the cleanup also deletes the reservations that expire now
cleanupExpiredReservations_Inclusive(p) ==
  /\ FirstFree(p)
  /\ LET expired == {r \in stock_reservations : r.expires_at <= now}
     IN /\ stock_reservations' = stock_reservations \ expired
        /\ proc' = [proc EXCEPT ![p] =
             Finished([Idle EXCEPT !.via = "cleanup", !.count = Cardinality(expired)], "ok")]
  /\ UNCHANGED << customers, sale_numbers, sale_items, batches, stock_operations,
                  stock_movements, sales, payments, sale_audit_logs, uuid, returned,
                  thrown, now >>

cleanupExpiredReservations(p) ==
  /\ FirstFree(p)
  /\ LET expired == {r \in stock_reservations : r.expires_at < now}
     IN /\ stock_reservations' = stock_reservations \ expired
        /\ proc' = [proc EXCEPT ![p] =
             Finished([Idle EXCEPT !.via = "cleanup", !.count = Cardinality(expired)], "ok")]
  /\ UNCHANGED << customers, sale_numbers, sale_items, batches, stock_operations,
                  stock_movements, sales, payments, sale_audit_logs, uuid, returned,
                  thrown, now >>

\* a day passes
tick ==
  /\ now < MaxTime
  /\ now' = now + 1
  /\ UNCHANGED << customers, sale_numbers, sale_items, batches, stock_operations,
                  stock_movements, sales, payments, sale_audit_logs, proc, uuid,
                  returned, thrown, stock_reservations >>

\* --------------------------------------------------------- batchController
MaxBatchCalls == 2
\* the quantities a caller may send: the controller checks none of them
InitialQuantities == (0 - 1)..MaxInitQty
ManualQuantities == (0 - 1)..MaxQty

\* createBatch up to its INSERT: the product must exist; the batch number is new
createBatch(p) ==
  /\ FirstFree(p)
  /\ uuid < MaxBatchCalls
  /\ \E b \in BatchIds, initial_quantity \in InitialQuantities :
     \E product_id \in {BatchProduct[b], MissingProduct} :
       /\ ~Batch_findById(b)
       /\ \A q \in Procs : ~(proc[q].via = "createBatch" /\ proc[q].batchId = b)
       /\ proc' = [proc EXCEPT ![p] =
            LET l == [Idle EXCEPT !.via = "createBatch", !.batchId = b,
                                  !.quantity = initial_quantity,
                                  !.movementId = uuid + 1]
            IN IF product_id \notin DOMAIN products
                 THEN Finished(l, "Product not found")
                 ELSE [l EXCEPT !.pc = "insertBatch"]]
  /\ uuid' = uuid + 1
  /\ UNCHANGED << customers, sale_numbers, batches, stock_operations, stock_movements,
                  sales, payments, sale_audit_logs, returned, thrown,
                  stock_reservations, now, sale_items >>

\* Batch.create
insertBatch(p) ==
  /\ proc[p].pc = "insertBatch"
  /\ LET l == proc[p]
     IN batches' = [batches EXCEPT ![l.batchId] =
          [product_id |-> BatchProduct[l.batchId], expiry_date |-> BatchExpiry[l.batchId],
           initial_quantity |-> l.quantity, current_quantity |-> l.quantity,
           is_active |-> TRUE]]
  /\ proc' = [proc EXCEPT ![p].pc = "initialMovement"]
  /\ UNCHANGED << customers, sale_numbers, stock_operations, stock_movements, sales,
                  payments, sale_audit_logs, uuid, returned, thrown,
                  stock_reservations, now, sale_items >>

\* the 'Initial stock' movement of createBatch
initialMovement(p) ==
  /\ proc[p].pc = "initialMovement"
  /\ LET l == proc[p]
     IN stock_movements' = stock_movements \cup
          {[id |-> l.movementId, product_id |-> BatchProduct[l.batchId],
            batch_id |-> l.batchId, movement_type |-> "IN", quantity |-> l.quantity,
            reference_id |-> NoRef]}
  /\ proc' = [proc EXCEPT ![p] = Finished(proc[p], "ok")]
  /\ UNCHANGED << customers, sale_numbers, batches, stock_operations, sales, payments,
                  sale_audit_logs, uuid, returned, thrown, stock_reservations, now,
                  sale_items >>

\* updateBatchQuantity up to its UPDATE: read the batch and the difference
updateBatchQuantity(p) ==
  /\ FirstFree(p)
  /\ uuid < MaxBatchCalls
  /\ \E id \in BatchIds \cup {MissingBatch}, quantity \in ManualQuantities :
       proc' = [proc EXCEPT ![p] =
         LET l == [Idle EXCEPT !.via = "updateBatchQuantity", !.batchId = id,
                               !.newQuantity = quantity, !.movementId = uuid + 1]
         IN IF ~Batch_findById(id) THEN Finished(l, "Batch not found")
            ELSE [l EXCEPT !.quantity = quantity - batches[id].current_quantity,
                           !.pc = "updateQuantity"]]
  /\ uuid' = uuid + 1
  /\ UNCHANGED << customers, sale_numbers, batches, stock_operations, stock_movements,
                  sales, payments, sale_audit_logs, returned, thrown,
                  stock_reservations, now, sale_items >>

\* Batch.updateQuantity, on the pooled handle
updateQuantity(p) ==
  /\ proc[p].pc = "updateQuantity"
  /\ ~LockedByOther(p, proc[p].batchId)
  /\ batches' = [batches EXCEPT ![proc[p].batchId].current_quantity = proc[p].newQuantity]
  /\ proc' = [proc EXCEPT ![p] =
       IF proc[p].quantity # 0 THEN [proc[p] EXCEPT !.pc = "adjustmentMovement"]
       ELSE Finished(proc[p], "ok")]
  /\ UNCHANGED << customers, sale_numbers, stock_operations, stock_movements, sales,
                  payments, sale_audit_logs, uuid, returned, thrown,
                  stock_reservations, now, sale_items >>

\* the 'Manual adjustment' movement of updateBatchQuantity
adjustmentMovement(p) ==
  /\ proc[p].pc = "adjustmentMovement"
  /\ LET l == proc[p]
     IN stock_movements' = stock_movements \cup
          {[id |-> l.movementId, product_id |-> batches[l.batchId].product_id,
            batch_id |-> l.batchId,
            movement_type |-> IF l.quantity > 0 THEN "IN" ELSE "OUT",
            quantity |-> IF l.quantity < 0 THEN 0 - l.quantity ELSE l.quantity,
            reference_id |-> NoRef]}
  /\ proc' = [proc EXCEPT ![p] = Finished(proc[p], "ok")]
  /\ UNCHANGED << customers, sale_numbers, batches, stock_operations, sales, payments,
                  sale_audit_logs, uuid, returned, thrown, stock_reservations, now,
                  sale_items >>

\* deleteBatch without its check of the remaining stock
deleteBatch_NoCheck(p) ==
  /\ FirstFree(p)
  /\ \E id \in BatchIds \cup {MissingBatch} :
       proc' = [proc EXCEPT ![p] =
         LET l == [Idle EXCEPT !.via = "deleteBatch", !.batchId = id]
         IN IF ~Batch_findById(id) THEN Finished(l, "Batch not found")
            ELSE [l EXCEPT !.pc = "delete"]]
  /\ UNCHANGED << customers, sale_numbers, batches, stock_operations, stock_movements,
                  sales, payments, sale_audit_logs, uuid, returned, thrown,
                  stock_reservations, now, sale_items >>

\* deleteBatch up to its UPDATE: read the batch, refuse one that holds stock
deleteBatch(p) ==
  /\ FirstFree(p)
  /\ \E id \in BatchIds \cup {MissingBatch} :
       proc' = [proc EXCEPT ![p] =
         LET l == [Idle EXCEPT !.via = "deleteBatch", !.batchId = id]
         IN IF ~Batch_findById(id) THEN Finished(l, "Batch not found")
            ELSE IF batches[id].current_quantity > 0
              THEN Finished(l, "Cannot delete batch with remaining stock")
              ELSE [l EXCEPT !.pc = "delete"]]
  /\ UNCHANGED << customers, sale_numbers, batches, stock_operations, stock_movements,
                  sales, payments, sale_audit_logs, uuid, returned, thrown,
                  stock_reservations, now, sale_items >>

\* Batch.delete: the soft delete, on the pooled handle
delete(p) ==
  /\ proc[p].pc = "delete"
  /\ ~LockedByOther(p, proc[p].batchId)
  /\ batches' = [batches EXCEPT ![proc[p].batchId].is_active = FALSE]
  /\ proc' = [proc EXCEPT ![p] = Finished(proc[p], "ok")]
  /\ UNCHANGED << customers, sale_numbers, stock_operations, stock_movements, sales,
                  payments, sale_audit_logs, uuid, returned, thrown,
                  stock_reservations, now, sale_items >>

\* a statement of a batch handler is rejected by the database: the handler
\* answers 500 and undoes nothing
batchError(p) ==
  /\ proc[p].pc \in {"insertBatch", "initialMovement", "updateQuantity",
                     "adjustmentMovement", "delete"}
  /\ proc' = [proc EXCEPT ![p] = Finished(proc[p], "database error")]
  /\ UNCHANGED << customers, sale_numbers, batches, stock_operations, stock_movements,
                  sales, payments, sale_audit_logs, uuid, returned, thrown,
                  stock_reservations, now, sale_items >>

\* the batch handlers with the stock executor and completeSale: batch B1 was
\* created with 0 or 1 units, the other batches are yet to be created; sale S2
\* (one unit of B1) is PENDING
InitBatch ==
  /\ \E q \in 0..1 :
       /\ batches =
            [b \in BatchIds |->
               IF b = "B1"
                 THEN [product_id |-> BatchProduct[b], expiry_date |-> BatchExpiry[b],
                       initial_quantity |-> q, current_quantity |-> q,
                       is_active |-> TRUE]
                 ELSE [product_id |-> NoProduct, expiry_date |-> BatchExpiry[b],
                       initial_quantity |-> 0, current_quantity |-> 0,
                       is_active |-> FALSE]]
       /\ stock_movements =
            {[id |-> 0, product_id |-> "P1", batch_id |-> "B1", movement_type |-> "IN",
              quantity |-> q, reference_id |-> NoRef]}
  /\ stock_operations = {}
  /\ sales = [s \in {"S2"} |-> "PENDING"]
  /\ payments = [s \in {"S2"} |-> "PENDING"]
  /\ sale_audit_logs =
       << [sale_id |-> "S2", action |-> "CREATED", description |-> "Sale created"] >>
  /\ proc = [p \in Procs |-> Idle]
  /\ uuid = 0
  /\ returned = {}
  /\ thrown = {}
  /\ stock_reservations = {}
  /\ now = 0
  /\ sale_items = {"S2"}
  /\ customers = {}
  /\ sale_numbers = {[id |-> "S2", day |-> 0, sequence |-> 1]}

StepBatch(p) ==
  \/ createBatch(p)
  \/ insertBatch(p)
  \/ initialMovement(p)
  \/ updateBatchQuantity(p)
  \/ updateQuantity(p)
  \/ adjustmentMovement(p)
  \/ deleteBatch(p)
  \/ delete(p)
  \/ batchError(p)
  \/ executeStockOperation(p)
  \/ updateBatchStock(p)
  \/ updateBatch(p)
  \/ updateProductStock(p)
  \/ handlePurchaseStock(p)
  \/ insertOperation(p)
  \/ createMovement(p)
  \/ commit(p)
  \/ databaseError(p)
  \/ completeSale(p)
  \/ saleItem(p)
  \/ updateStatus(p)
  \/ updatePayments(p)
  \/ createAuditLog(p)
  \/ respond(p)

NextBatch == \E p \in Procs : StepBatch(p)
SpecBatch == InitBatch /\ [][NextBatch]_vars

\* the same requests one at a time
NextBatchSeq == StepBatch("p1")
SpecBatchSeq == InitBatch /\ [][NextBatchSeq]_vars

\* deleteBatch interleaved with updateBatchQuantity and the stock executor
StepDelete(p) ==
  \/ deleteBatch(p)
  \/ delete(p)
  \/ updateBatchQuantity(p)
  \/ updateQuantity(p)
  \/ adjustmentMovement(p)
  \/ batchError(p)
  \/ executeStockOperation(p)
  \/ updateBatchStock(p)
  \/ updateBatch(p)
  \/ updateProductStock(p)
  \/ handlePurchaseStock(p)
  \/ insertOperation(p)
  \/ createMovement(p)
  \/ commit(p)
  \/ databaseError(p)
  \/ respond(p)

NextDelete == \E p \in Procs : StepDelete(p)
SpecDelete == InitBatch /\ [][NextDelete]_vars

\* ------------------------------------------------------------------ Next
Step(p) ==
  \/ executeStockOperation(p)
  \/ updateBatchStock(p)
  \/ updateBatch(p)
  \/ updateProductStock(p)
  \/ handlePurchaseStock(p)
  \/ insertOperation(p)
  \/ createMovement(p)
  \/ commit(p)
  \/ databaseError(p)
  \/ completeSale(p)
  \/ saleItem(p)
  \/ updateStatus(p)
  \/ updatePayments(p)
  \/ createAuditLog(p)
  \/ respond(p)

Next == \E p \in Procs : Step(p)

Spec == Init /\ [][Next]_vars

\* one request at a time
NextSeq == Step("p1")

SpecSeq == Init /\ [][NextSeq]_vars

\* reservations and stock operations, one request at a time, as the days pass
NextRes ==
  \/ reserveStock("p1")
  \/ checkAvailableStock("p1")
  \/ checkBatch("p1")
  \/ insertReservation("p1")
  \/ commitReservation("p1")
  \/ reservationError("p1")
  \/ releaseStockReservation("p1")
  \/ cleanupExpiredReservations("p1")
  \/ executeStockOperation("p1")
  \/ updateBatchStock("p1")
  \/ updateBatch("p1")
  \/ updateProductStock("p1")
  \/ handlePurchaseStock("p1")
  \/ insertOperation("p1")
  \/ createMovement("p1")
  \/ commit("p1")
  \/ databaseError("p1")
  \/ respond("p1")
  \/ tick

SpecRes == Init /\ [][NextRes]_vars

\* no sale has been created yet
InitSale ==
  /\ batches \in
       { [b \in BatchIds |->
            [product_id |-> BatchProduct[b], expiry_date |-> BatchExpiry[b],
             initial_quantity |-> q, current_quantity |-> q, is_active |-> TRUE]]
         : q \in 1..MaxInitQty }
  /\ stock_operations = {}
  /\ stock_movements = {}
  /\ sales = [s \in SaleIds |-> "NONE"]
  /\ payments = [s \in SaleIds |-> "NONE"]
  /\ sale_audit_logs = << >>
  /\ proc = [p \in Procs |-> Idle]
  /\ uuid = 0
  /\ returned = {}
  /\ thrown = {}
  /\ stock_reservations = {}
  /\ now = 0
  /\ sale_items = {}
  /\ customers = {}
  /\ sale_numbers = {}

\* the sale requests of two cashiers, interleaved
StepSale(p) ==
  \/ createSale(p)
  \/ createCustomer(p)
  \/ validateItems(p)
  \/ generateSaleNumber(p)
  \/ insertSale(p)
  \/ createSaleError(p)
  \/ createItems(p)
  \/ createPayment(p)
  \/ createdAuditLog(p)
  \/ completeSale(p)
  \/ saleItem(p)
  \/ updateBatchStock(p)
  \/ updateBatch(p)
  \/ insertOperation(p)
  \/ createMovement(p)
  \/ commit(p)
  \/ databaseError(p)
  \/ updateStatus(p)
  \/ updatePayments(p)
  \/ createAuditLog(p)
  \/ cancelSale(p)
  \/ cancelStatus(p)
  \/ cancelPayments(p)
  \/ cancelAuditLog(p)
  \/ respond(p)

NextSale == \E p \in Procs : StepSale(p)

SpecSale == InitSale /\ [][NextSale]_vars

\* the sale requests one at a time
NextSaleSeq == StepSale("p1")
SpecSaleSeq == InitSale /\ [][NextSaleSeq]_vars

\* two cashiers complete sale S2 (one unit of B1), PENDING since its creation
InitComplete ==
  /\ batches \in
       { [b \in BatchIds |->
            [product_id |-> BatchProduct[b], expiry_date |-> BatchExpiry[b],
             initial_quantity |-> q, current_quantity |-> q, is_active |-> TRUE]]
         : q \in 1..MaxInitQty }
  /\ stock_operations = {}
  /\ stock_movements = {}
  /\ sales = [s \in {"S2"} |-> "PENDING"]
  /\ payments = [s \in {"S2"} |-> "PENDING"]
  /\ sale_audit_logs =
       << [sale_id |-> "S2", action |-> "CREATED", description |-> "Sale created"] >>
  /\ proc = [p \in Procs |-> Idle]
  /\ uuid = 0
  /\ returned = {}
  /\ thrown = {}
  /\ stock_reservations = {}
  /\ now = 0
  /\ sale_items = {"S2"}
  /\ customers = {}
  /\ sale_numbers = {[id |-> "S2", day |-> 0, sequence |-> 1]}

StepComplete(p) ==
  \/ completeSale(p)
  \/ saleItem(p)
  \/ updateBatchStock(p)
  \/ updateBatch(p)
  \/ insertOperation(p)
  \/ createMovement(p)
  \/ commit(p)
  \/ databaseError(p)
  \/ updateStatus(p)
  \/ updatePayments(p)
  \/ createAuditLog(p)
  \/ respond(p)

NextComplete == \E p \in Procs : StepComplete(p)
SpecComplete == InitComplete /\ [][NextComplete]_vars

\* two cashiers create sales S1 and S2 as the days pass; the sales of earlier
\* today hold no number, number 9999, or numbers 9999 and 10000
InitNumber ==
  /\ batches =
       [b \in BatchIds |->
          [product_id |-> BatchProduct[b], expiry_date |-> BatchExpiry[b],
           initial_quantity |-> MaxInitQty, current_quantity |-> MaxInitQty,
           is_active |-> TRUE]]
  /\ stock_operations = {}
  /\ stock_movements = {}
  /\ sales = [s \in AllSaleIds |-> "NONE"]
  /\ payments = [s \in AllSaleIds |-> "NONE"]
  /\ sale_audit_logs = << >>
  /\ proc = [p \in Procs |-> Idle]
  /\ uuid = 0
  /\ returned = {}
  /\ thrown = {}
  /\ stock_reservations = {}
  /\ now = 0
  /\ sale_items = {}
  /\ customers = {}
  /\ sale_numbers \in
       { {},
         {[id |-> "O1", day |-> 0, sequence |-> 9999]},
         {[id |-> "O1", day |-> 0, sequence |-> 9999],
          [id |-> "O2", day |-> 0, sequence |-> 10000]} }

StepNumber(p) ==
  \/ createSale(p)
  \/ createCustomer(p)
  \/ validateItems(p)
  \/ generateSaleNumber(p)
  \/ insertSale(p)
  \/ createSaleError(p)
  \/ createItems(p)
  \/ createPayment(p)
  \/ createdAuditLog(p)
  \/ respond(p)

NextNumber == (\E p \in Procs : StepNumber(p)) \/ tick
SpecNumber == InitNumber /\ [][NextNumber]_vars

\* a request inside SalesModel.create is not left waiting for ever: each of
\* its statements is answered by the database
SpecNumberFair ==
  /\ SpecNumber
  /\ \A p \in Procs : WF_vars(generateSaleNumber(p) \/ insertSale(p))

\* ================================================================ claims
Rows(table, id) == {r \in table : r.id = id}

\* stock operations that have ended: returned an id, or thrown
Ended == returned \cup thrown

\* C1: under every interleaving of executeStockOperation calls no batch ever
\* has a negative current_quantity, committed or held in a transaction, and
\* every update a call issues passed updateBatchStock's check (newQuantity >= 0).
C1_NonNegativeStock ==
  /\ \A b \in BatchIds : batches[b].current_quantity >= 0
  /\ \A p \in Procs :
       /\ \A u \in proc[p].trx : u.current_quantity >= 0
       /\ proc[p].pc = "updateBatch" => proc[p].newQuantity >= 0

\* a SALE of a batch emptied by an earlier committed operation was refused
C1_Witness ==
  \E p \in Procs :
    /\ proc[p].pc = "done"
    /\ proc[p].result = "Insufficient batch quantity"
    /\ proc[p].operation.batchId \in BatchIds
    /\ batches[proc[p].operation.batchId].current_quantity = 0
    /\ stock_operations # {}

\* C2: no lost update: the stock on hand is the stock received plus what the
\* committed PURCHASE/ADJUSTMENT operations added minus what the committed
\* SALE/TRANSFER operations removed, so concurrent successful operations on a
\* batch all show in its current_quantity.
C2_NoLostUpdate ==
  SumQty(BatchIds, current_quantity)
    = SumQty(BatchIds, [b \in BatchIds |-> batches[b].initial_quantity])
      + SumRows({r \in stock_operations : Adds(r.operation_type)})
      - SumRows({r \in stock_operations : Subtracts(r.operation_type)})

\* the errors with which executeStockOperation refuses an operation
StockErrors ==
  {"Insufficient stock for operation", "Insufficient batch quantity",
   "Insufficient stock across all batches", "Batch not found"}

\* C3: when completeSale ends with the error of an item's stock operation, every
\* batch quantity is what it was before the call, no stock_operations or
\* stock_movements row of the sale remains, and the sale is still PENDING.
C3_CompleteSaleAllOrNothing ==
  \A p \in Procs :
    (/\ proc[p].pc = "done"
     /\ proc[p].saleId \in SaleIds
     /\ proc[p].items # << >>
     /\ proc[p].result \in StockErrors)
    => /\ current_quantity = proc[p].before
       /\ {r \in stock_operations : r.reference_id = proc[p].saleId} = {}
       /\ {r \in stock_movements : r.reference_id = proc[p].saleId} = {}
       /\ sales[proc[p].saleId] = "PENDING"

\* C4: a completeSale that starts on a COMPLETED sale ends at once with
\* 'Sale is not in pending status' and changes no batch, no stock_operations or
\* stock_movements row, no sale or payment status and no audit row.
C4_CompleteNotRepeatable ==
  [][\A p \in Procs, s \in SaleIds :
       (/\ sales[s] = "COMPLETED"
        /\ proc[p].pc = "idle"
        /\ proc'[p].pc # "idle"
        /\ proc'[p].saleId = s)
       => /\ proc'[p].pc = "done"
          /\ proc'[p].result = "Sale is not in pending status"
          /\ UNCHANGED << customers, sale_numbers, batches, stock_operations,
                          stock_movements, sales, payments, sale_audit_logs >>]_vars

\* a second completeSale of a sale completed before has been refused
C4_Witness ==
  \E p \in Procs :
    /\ proc[p].pc = "done"
    /\ proc[p].saleId \in SaleIds
    /\ proc[p].result = "Sale is not in pending status"
    /\ sales[proc[p].saleId] = "COMPLETED"
    /\ payments[proc[p].saleId] = "COMPLETED"
    /\ {r \in stock_operations : r.reference_id = proc[p].saleId} # {}

\* a direct executeStockOperation call of request p has ended
DirectDone(p) == proc[p].pc = "done" /\ proc[p].saleId = "" /\ proc[p].operationId > 0

\* the batches get_fifo_batches could draw from when the call of p began
EligibleBefore(p) ==
  {b \in BatchIds : /\ batches[b].product_id = proc[p].operation.productId
                    /\ batches[b].is_active
                    /\ proc[p].before[b] > 0}

\* what the call of p took from each batch
Taken(p) == [b \in BatchIds |-> proc[p].before[b] - batches[b].current_quantity]

\* C5: a successful SALE/TRANSFER without batchId takes from the product's active
\* batches with stock only, the amounts taken sum to the requested quantity, and
\* a batch gives something only if every eligible batch expiring earlier is empty.
C5_FifoByExpiry ==
  \A p \in Procs :
    (/\ DirectDone(p)
     /\ proc[p].result = "ok"
     /\ proc[p].operation.batchId = NoBatch
     /\ proc[p].operation.operationType \in {"SALE", "TRANSFER"})
    => /\ \A b \in BatchIds :
            /\ Taken(p)[b] >= 0
            /\ Taken(p)[b] > 0 => b \in EligibleBefore(p)
       /\ SumQty(BatchIds, Taken(p)) = proc[p].operation.quantity
       /\ \A b \in EligibleBefore(p), e \in EligibleBefore(p) :
            (batches[e].expiry_date < batches[b].expiry_date /\ Taken(p)[b] > 0)
            => batches[e].current_quantity = 0

\* an allocation over two batches: the earlier one emptied, the rest from the later
C5_Witness ==
  \E p \in Procs :
    /\ DirectDone(p)
    /\ proc[p].result = "ok"
    /\ proc[p].operation.batchId = NoBatch
    /\ proc[p].operation.operationType = "SALE"
    /\ Taken(p)["B1"] > 0
    /\ Taken(p)["B2"] > 0
    /\ batches["B1"].current_quantity = 0
    /\ batches["B2"].current_quantity > 0

\* C6: a SALE/TRANSFER without batchId for more than the product's eligible
\* batches hold is refused with 'Insufficient stock for operation', leaves every
\* batch quantity as it was and leaves no stock_operations or stock_movements row.
C6_NoPartialAllocation ==
  \A p \in Procs :
    (/\ DirectDone(p)
     /\ proc[p].operation.batchId = NoBatch
     /\ proc[p].operation.operationType \in {"SALE", "TRANSFER"}
     /\ proc[p].operation.quantity > SumQty(EligibleBefore(p), proc[p].before))
    => /\ proc[p].result = "Insufficient stock for operation"
       /\ proc[p].operationId \in thrown
       /\ current_quantity = proc[p].before
       /\ Rows(stock_operations, proc[p].operationId) = {}
       /\ Rows(stock_movements, proc[p].operationId) = {}

\* a request for more than the eligible batches hold has been refused
C6_Witness ==
  \E p \in Procs :
    /\ DirectDone(p)
    /\ proc[p].operation.batchId = NoBatch
    /\ proc[p].operation.operationType = "SALE"
    /\ SumQty(EligibleBefore(p), proc[p].before) > 0
    /\ proc[p].operation.quantity > SumQty(EligibleBefore(p), proc[p].before)
    /\ proc[p].result # "ok"

\* C7: a successful executeStockOperation with batchId and quantity q leaves that
\* batch at old - q (SALE, TRANSFER) or old + q (PURCHASE, ADJUSTMENT) and every
\* other batch as it was.
C7_BatchDelta ==
  \A p \in Procs :
    (/\ DirectDone(p)
     /\ proc[p].result = "ok"
     /\ proc[p].operation.batchId # NoBatch)
    => current_quantity =
         [proc[p].before EXCEPT ![proc[p].operation.batchId] =
            IF proc[p].operation.operationType \in {"SALE", "TRANSFER"}
              THEN @ - proc[p].operation.quantity
              ELSE @ + proc[p].operation.quantity]

\* a TRANSFER with batchId has succeeded after an ADJUSTMENT with batchId
C7_Witness ==
  \E p \in Procs :
    /\ DirectDone(p)
    /\ proc[p].result = "ok"
    /\ proc[p].operation.batchId \in BatchIds
    /\ proc[p].operation.operationType = "TRANSFER"
    /\ \E r \in stock_operations :
         r.operation_type = "ADJUSTMENT" /\ r.batch_id \in BatchIds

\* the stock held for a product in a batches table: what getCurrentStock sums
StockHeld(table, productId) ==
  SumQty({b \in BatchIds : table[b].product_id = productId /\ table[b].is_active},
         [b \in BatchIds |-> table[b].current_quantity])

\* C8: every stock_operations row records the mutation it audits: new_quantity is
\* previous_quantity minus (SALE, TRANSFER) or plus (PURCHASE, ADJUSTMENT) the
\* change, new_quantity >= 0, and previous_quantity and new_quantity are the stock
\* held for the product just before and just after the operation commits.
C8_OperationRowAccurate ==
  [][\A r \in stock_operations' \ stock_operations :
       /\ r.new_quantity =
            IF r.operation_type \in {"SALE", "TRANSFER"}
              THEN r.previous_quantity - r.quantity_change
              ELSE r.previous_quantity + r.quantity_change
       /\ r.new_quantity >= 0
       /\ r.previous_quantity = StockHeld(batches, r.product_id)
       /\ r.new_quantity = StockHeld(batches', r.product_id)]_vars

\* C9: once an executeStockOperation call has returned or failed, its batch
\* update, its stock_operations row and its stock_movements row are all there
\* or none of them is.
C9_ThreeWritesAtomic ==
  \A p \in Procs :
    DirectDone(p)
    => LET updated == current_quantity # proc[p].before
           operation == Rows(stock_operations, proc[p].operationId) # {}
           movement == Rows(stock_movements, proc[p].operationId) # {}
       IN \/ updated /\ operation /\ movement
          \/ ~updated /\ ~operation /\ ~movement

\* C10: every executeStockOperation call that returned has exactly one row in
\* stock_operations and one in stock_movements, every call that failed has none,
\* so each table has as many rows as calls have succeeded.
C10_OneRowPerSuccess ==
  /\ \A id \in returned :
       /\ Cardinality(Rows(stock_operations, id)) = 1
       /\ Cardinality(Rows(stock_movements, id)) = 1
  /\ \A id \in thrown :
       /\ Rows(stock_operations, id) = {}
       /\ Rows(stock_movements, id) = {}
  /\ (\A p \in Procs : ~InExecute(proc[p]))
       => /\ Cardinality(stock_operations) = Cardinality(returned)
          /\ Cardinality(stock_movements) = Cardinality(returned)

\* the batches whose quantity the call of p has changed
Touched(p) == {b \in BatchIds : Taken(p)[b] # 0}

\* C11: a successful executeStockOperation without batchId that changed k >= 1
\* batches has left one stock_movements row per batch changed (k rows), each
\* naming its batch and the quantity taken from or added to it, along with its
\* stock_operations row(s).
C11_RowPerBatchTouched ==
  \A p \in Procs :
    (/\ DirectDone(p)
     /\ proc[p].result = "ok"
     /\ proc[p].operation.batchId = NoBatch
     /\ Touched(p) # {})
    => LET k == Cardinality(Touched(p))
           operations == Rows(stock_operations, proc[p].operationId)
           movements == Rows(stock_movements, proc[p].operationId)
       IN /\ Cardinality(operations) \in {1, k}
          /\ Cardinality(movements) = k
          /\ \A b \in Touched(p) :
               \E r \in movements :
                 /\ r.batch_id = b
                 /\ r.quantity = IF Taken(p)[b] > 0 THEN Taken(p)[b] ELSE 0 - Taken(p)[b]

\* the message handlePurchaseStock throws when it finds no batch to add to
NotImplemented == "Purchase stock handling requires batch creation - not implemented"

ReserveDone(p) == proc[p].pc = "done" /\ proc[p].via = "reserve"

\* C13: for every product the available stock, the stock held in its active
\* batches minus the quantity of its reservations that have not expired, is never
\* negative, whatever reservations and stock operations have run.
C13_AvailableNonNegative ==
  \A productId \in Products : getAvailableStock(productId) >= 0

\* the available stock of the product of p's reserveStock call, its own
\* reservation not counted
AvailableToCall(p) ==
  LET rows == {r \in stock_reservations : /\ r.product_id = proc[p].reservation.productId
                                          /\ r.expires_at > now
                                          /\ r.id # proc[p].reservationId}
  IN getCurrentStock(proc[p].reservation.productId) - SumQty(rows, [r \in rows |-> r.quantity])

\* C14: reserveStock adds a row only after a validation that reported isValid,
\* and a reservation for more than the available stock, or naming a batch that is
\* missing, inactive, too small or expired when the call began, ends with
\* 'Stock validation failed' and without a reservation.
C14_ReserveOnlyIfValid ==
  /\ [][\A p \in Procs :
          (proc[p].via = "reserve" /\ stock_reservations' # stock_reservations)
          => proc[p].validation.isValid]_vars
  /\ [](\A p \in Procs :
          LET r == proc[p].reservation
          IN (/\ ReserveDone(p)
              /\ r.productId \in Products
              /\ \/ r.quantity > AvailableToCall(p)
                 \/ r.batchId = MissingBatch
                 \/ /\ r.batchId \in BatchIds
                    /\ \/ ~batches[r.batchId].is_active
                       \/ batches[r.batchId].current_quantity < r.quantity
                       \/ batches[r.batchId].expiry_date <= proc[p].startedAt)
             => /\ proc[p].result = "Stock validation failed"
                /\ proc[p].reservationId = 0)

\* C15: validateStockAvailability never throws: it returns a result whose isValid
\* is true exactly when errors is empty, and for a batchId that names no batch
\* 'Batch not found or inactive' is among the errors.
C15_ValidateNeverThrows ==
  \A p \in Procs :
    ReserveDone(p)
    => /\ proc[p].result # "TypeError"
       /\ proc[p].validation.isValid <=> proc[p].validation.errors = << >>
       /\ (proc[p].reservation.productId \in Products
           /\ proc[p].reservation.batchId = MissingBatch)
          => \E i \in 1..Len(proc[p].validation.errors) :
               proc[p].validation.errors[i].message = "Batch not found or inactive"

\* the reservation operations
ReservationCalls == {"reserve", "release", "cleanup"}

\* C16: no step of reserveStock, releaseStockReservation or
\* cleanupExpiredReservations changes a batch or writes a stock_operations or
\* stock_movements row; a committed reservation lowers the available stock of its
\* product by its quantity and leaves the stock held as it was.
C16_ReservationFrame ==
  [][\A p \in Procs :
       (proc'[p] # proc[p]
        /\ (proc[p].via \in ReservationCalls \/ proc'[p].via \in ReservationCalls))
       => /\ UNCHANGED << customers, sale_numbers, batches, stock_operations, stock_movements >>
          /\ \A row \in stock_reservations' \ stock_reservations :
               /\ StockHeld(batches', row.product_id) = StockHeld(batches, row.product_id)
               /\ row.expires_at > now
                  => getAvailableStock(row.product_id)'
                       = getAvailableStock(row.product_id) - row.quantity]_vars

\* a reservation has been committed, and a release and a cleanup have run
C16_Witness ==
  /\ stock_reservations # {}
  /\ uuid = MaxCalls
  /\ \E p \in Procs : proc[p].pc = "done" /\ proc[p].via = "cleanup" /\ proc[p].count > 0

\* C17: releaseStockReservation never fails, removes the row with the id given
\* and no other row, and leaves the table as it is when no row has that id.
C17_ReleaseIdempotent ==
  [][\A p \in Procs :
       (proc[p].pc = "idle" /\ proc'[p].via = "release")
       => /\ proc'[p].pc = "done"
          /\ proc'[p].result = "ok"
          /\ stock_reservations' =
               {r \in stock_reservations : r.id # proc'[p].reservationId}
          /\ (\A r \in stock_reservations : r.id # proc'[p].reservationId)
             => stock_reservations' = stock_reservations]_vars

\* a reservation of a product has been released and another one of it is kept
C17_Witness ==
  \E p \in Procs :
    /\ proc[p].pc = "done"
    /\ proc[p].via = "release"
    /\ proc[p].reservationId = 1
    /\ uuid = 2
    /\ \E r \in stock_reservations : r.id = 2 /\ r.product_id = "P1"
    /\ getAvailableStock("P1") = getCurrentStock("P1") - 1

\* C18: cleanupExpiredReservations removes exactly the reservations with
\* expires_at < now, keeps the others and returns the number removed; after it no
\* reservation has expires_at < now, and a call that finds none returns 0.
C18_CleanupExact ==
  [][\A p \in Procs :
       (proc[p].pc = "idle" /\ proc'[p].via = "cleanup")
       => /\ stock_reservations' = {r \in stock_reservations : r.expires_at >= now}
          /\ proc'[p].count = Cardinality(stock_reservations)
                                - Cardinality(stock_reservations')
          /\ \A r \in stock_reservations' : r.expires_at >= now
          /\ (\A r \in stock_reservations : r.expires_at >= now) => proc'[p].count = 0
          /\ proc'[p].result = "ok"]_vars

\* a cleanup has removed an expired reservation and kept one that expires now
C18_Witness ==
  \E p \in Procs :
    /\ proc[p].pc = "done"
    /\ proc[p].via = "cleanup"
    /\ proc[p].count = 1
    /\ \E r \in stock_reservations : r.expires_at = now

\* C19: a reserveStock without batchId for an active product reads the available
\* stock A of the product; with quantity = A the validation passes and the call
\* does not fail on it, with quantity = A + 1 it ends with 'Stock validation
\* failed' and the one error 'Insufficient stock' citing A available, A + 1 required.
C19_AvailabilityBoundary ==
  /\ [][\A p \in Procs :
          (proc[p].pc = "getAvailableStock" /\ proc'[p].pc # "getAvailableStock")
          => proc'[p].availableStock = getAvailableStock(proc[p].reservation.productId)]_vars
  /\ [](\A p \in Procs :
          LET l == proc[p]
          IN (/\ ReserveDone(p)
              /\ l.reservation.productId \in Products
              /\ l.reservation.batchId = NoBatch)
             => /\ l.reservation.quantity = l.availableStock
                   => l.validation.isValid /\ l.result \in {"ok", "database error"}
                /\ l.reservation.quantity = l.availableStock + 1
                   => /\ l.result = "Stock validation failed"
                      /\ l.reservationId = 0
                      /\ l.validation.errors =
                           << Error("Insufficient stock", l.availableStock,
                                    l.availableStock + 1) >>)

\* both sides of the boundary: the whole available stock of P1 has been reserved,
\* and a request for one more than is available has been refused
C19_Witness ==
  /\ \E r \in stock_reservations : r.product_id = "P1" /\ r.quantity = 3 /\ r.id = 1
  /\ \E p \in Procs :
       /\ ReserveDone(p)
       /\ proc[p].reservation.batchId = NoBatch
       /\ proc[p].reservation.productId = "P1"
       /\ proc[p].availableStock = 0
       /\ proc[p].reservation.quantity = 1
       /\ proc[p].result = "Stock validation failed"

\* C20: a sale is created PENDING, the only changes of its status are PENDING ->
\* COMPLETED and PENDING -> CANCELLED, and neither end status is ever left, under
\* every interleaving of createSale, completeSale and cancelSale.
C20_SaleStateMachine ==
  [][\A s \in SaleIds :
       sales'[s] # sales[s]
       => \/ sales[s] = "NONE" /\ sales'[s] = "PENDING"
          \/ sales[s] = "PENDING" /\ sales'[s] \in {"COMPLETED", "CANCELLED"}]_vars

\* a cancelSale request that has returned or thrown
CancelDone(p) == proc[p].pc = "done" /\ proc[p].via = "cancelSale"

\* the audit row a successful cancelSale leaves
CancelledRow(p) ==
  [sale_id |-> proc[p].saleId, action |-> "CANCELLED",
   description |-> CancelDescription(proc[p].reason)]

CompleteOk(p) ==
  /\ proc[p].pc = "done" /\ proc[p].result = "ok"
  /\ proc[p].saleId # "" /\ proc[p].via \notin {"createSale", "cancelSale"}

\* the committed SALE operations of a sale for one of its items
ItemOperations(saleId, item) ==
  {r \in stock_operations :
     /\ r.reference_id = saleId /\ r.operation_type = "SALE"
     /\ r.product_id = item.product_id /\ r.batch_id = item.batch_id
     /\ r.quantity_change = item.quantity}

\* the quantity the items of a sale take from a batch
RECURSIVE ItemsQuantity(_, _)
ItemsQuantity(items, b) ==
  IF items = << >> THEN 0
  ELSE (IF Head(items).batch_id = b THEN Head(items).quantity ELSE 0)
       + ItemsQuantity(Tail(items), b)

CompletedRow(saleId) ==
  [sale_id |-> saleId, action |-> "COMPLETED",
   description |-> "Sale completed and stock updated"]

\* C22: when completeSale of a PENDING sale returns, stock_operations holds
\* exactly one SALE row per item of the sale (its product, batch, quantity,
\* reference_id = the sale) and no other row of the sale, each item's quantity
\* is off its batch, the sale and its payments are COMPLETED and the last audit
\* row is the one COMPLETED row the call appended; and the sale is COMPLETED
\* only when every item has its committed SALE operation
C22_CompleteSaleEffects ==
  /\ [](\A p \in Procs :
          CompleteOk(p)
          => LET saleId == proc[p].saleId
                 items == findItems(saleId)
             IN /\ \A i \in 1..Len(items) :
                     Cardinality(ItemOperations(saleId, items[i])) = 1
                /\ Cardinality({r \in stock_operations : r.reference_id = saleId})
                     = Len(items)
                /\ \A b \in BatchIds :
                     batches[b].current_quantity
                       = proc[p].before[b] - ItemsQuantity(items, b)
                /\ sales[saleId] = "COMPLETED"
                /\ payments[saleId] = "COMPLETED"
                /\ sale_audit_logs[Len(sale_audit_logs)] = CompletedRow(saleId))
  /\ [](\A saleId \in SaleIds :
          sales[saleId] = "COMPLETED"
          => \A i \in 1..Len(findItems(saleId)) :
               ItemOperations(saleId, findItems(saleId)[i]) # {})
  /\ [][\A p \in Procs :
          (proc[p].saleId # "" /\ proc[p].via \notin {"createSale", "cancelSale"}
             /\ proc'[p] # proc[p] /\ sale_audit_logs' # sale_audit_logs)
          => /\ proc'[p].pc = "done" /\ proc'[p].result = "ok"
             /\ sale_audit_logs' =
                  Append(sale_audit_logs, CompletedRow(proc[p].saleId))]_vars

C22_Witness ==
  \E p \in Procs :
    /\ CompleteOk(p)
    /\ sales[proc[p].saleId] = "COMPLETED"
    /\ Cardinality({r \in stock_operations : r.reference_id = proc[p].saleId}) = 2

\* a createSale request that has returned or thrown
CreateDone(p) == proc[p].pc = "done" /\ proc[p].via = "createSale"

CreateSaleRows(saleId) ==
  [customers |-> {c \in customers : c.id = saleId},
   sales |-> IF sales[saleId] = "NONE" THEN {} ELSE {saleId},
   sale_items |-> sale_items \cap {saleId},
   payments |-> IF payments[saleId] = "NONE" THEN {} ELSE {saleId},
   sale_audit_logs |->
     {i \in 1..Len(sale_audit_logs) : sale_audit_logs[i].sale_id = saleId}]

\* C24: createSale is all-or-nothing: when it has thrown, no customer, sale,
\* sale_item, payment or audit row of the call remains; when it has returned,
\* the sale, its items, one PENDING payment and one CREATED audit row exist
C24_CreateSaleAllOrNothing ==
  \A p \in Procs :
    CreateDone(p)
    => LET rows == CreateSaleRows(proc[p].saleId)
       IN IF proc[p].result = "ok"
            THEN /\ rows.sales # {} /\ rows.sale_items # {}
                 /\ payments[proc[p].saleId] = "PENDING"
                 /\ Cardinality(rows.sale_audit_logs) = 1
                 /\ Created(proc[p].saleId)
            ELSE /\ rows.customers = {} /\ rows.sales = {} /\ rows.sale_items = {}
                 /\ rows.payments = {} /\ rows.sale_audit_logs = {}

\* C26: no batch row ever has a negative current_quantity, whichever of
\* createBatch, updateBatchQuantity, executeStockOperation and completeSale
\* wrote it
C26_QuantityNeverNegative ==
  \A b \in BatchIds : batches[b].current_quantity >= 0

\* C25: deleteBatch of a batch that holds stock is refused and leaves the row
\* as it is, and no step under any interleaving of deleteBatch,
\* updateBatchQuantity and executeStockOperation turns a batch inactive in a
\* state where its current_quantity > 0
C25_DeleteOnlyWhenEmpty ==
  /\ [][\A p \in Procs :
          (proc[p].pc = "idle" /\ proc'[p].via = "deleteBatch"
             /\ Batch_findById(proc'[p].batchId)
             /\ batches[proc'[p].batchId].current_quantity > 0)
          => /\ proc'[p].pc = "done"
             /\ proc'[p].result = "Cannot delete batch with remaining stock"
             /\ batches' = batches]_vars
  /\ [][\A b \in BatchIds :
          (batches[b].is_active /\ ~batches'[b].is_active)
          => ~(batches'[b].current_quantity > 0)]_vars

\* C27: however completeSale calls for the same PENDING sale interleave, the
\* stock of each item is deducted at most once: a batch never holds less than
\* what it was created with minus what the items of the sale take from it,
\* and no item has two committed SALE operations
C27_DeductedOnce ==
  \A saleId \in DOMAIN sales :
    /\ \A b \in BatchIds :
         batches[b].initial_quantity - batches[b].current_quantity
           <= ItemsQuantity(findItems(saleId), b)
    /\ \A i \in 1..Len(findItems(saleId)) :
         Cardinality(ItemOperations(saleId, findItems(saleId)[i])) <= 1

\* the signed sum of the movement rows of a product: IN and ADJUSTMENT count
\* up, OUT and TRANSFER count down
RECURSIVE LedgerSum(_)
LedgerSum(S) ==
  IF S = {} THEN 0
  ELSE LET r == CHOOSE y \in S : TRUE
       IN (IF r.movement_type \in {"IN", "ADJUSTMENT"} THEN r.quantity
           ELSE 0 - r.quantity)
          + LedgerSum(S \ {r})

Ledger(productId) == LedgerSum({r \in stock_movements : r.product_id = productId})

\* what the batches of a product hold, active or not
Held(productId) ==
  SumQty({b \in BatchIds : batches[b].product_id = productId}, current_quantity)

Quiescent == \A p \in Procs : proc[p].pc \in {"idle", "done"}

\* C28: whenever no request is under way, for every product the quantities its
\* batches hold add up to its IN and ADJUSTMENT movements minus its OUT and
\* TRANSFER movements
C28_LedgerReconciles ==
  Quiescent => \A productId \in Products : Held(productId) = Ledger(productId)

\* C29: a commit of executeStockOperation called with (productId, batchId)
\* changes the current_quantity of no batch but active batches of productId
C29_OwnActiveBatchOnly ==
  [][\A b \in BatchIds :
       batches'[b].current_quantity # batches[b].current_quantity
       => \E p \in Procs :
            /\ proc[p].pc = "commit" /\ proc'[p] # proc[p]
            /\ batches[b].product_id = proc[p].operation.productId
            /\ batches[b].is_active]_vars

\* C30: under every interleaving of createSale calls no two sale rows share a
\* sale_number; SalesModel.create makes at most 3 insert attempts; it goes
\* back to generateSaleNumber only after a duplicate-key rejection, having
\* inserted nothing, and the number it then takes is one more than the last
\* sequence of the day; any other insert ends in the row inserted or in a
\* throw; and every call that entered SalesModel.create leaves it
C30_SaleNumbering ==
  /\ [](\A r, o \in sale_numbers :
          (r.day = o.day /\ r.sequence = o.sequence) => r = o)
  /\ [](\A p \in Procs :
          /\ proc[p].attempts <= MaxAttempts
          /\ proc[p].pc \in {"generateSaleNumber", "insertSale"}
               => proc[p].attempts < MaxAttempts)
  /\ [][\A p \in Procs :
          (proc[p].pc = "insertSale" /\ proc'[p] # proc[p])
          => \/ /\ proc'[p].pc = "generateSaleNumber"
                /\ Duplicate(proc[p])
                /\ proc'[p].attempts = proc[p].attempts + 1
                /\ UNCHANGED << sales, sale_numbers >>
             \/ /\ proc'[p].pc = "createItems"
                /\ sales'[proc[p].saleId] = "PENDING"
                /\ sale_numbers' = sale_numbers \cup
                     {[id |-> proc[p].saleId, day |-> proc[p].day,
                       sequence |-> proc[p].saleNumber]}
                /\ sale_numbers' # sale_numbers
             \/ /\ proc'[p].pc = "done" /\ proc'[p].result # "ok"
                /\ UNCHANGED << sales, sale_numbers >>]_vars
  /\ [][\A p \in Procs :
          (proc[p].pc = "generateSaleNumber" /\ proc'[p].pc = "insertSale")
          => proc'[p].saleNumber = NextSequence(now)]_vars
  /\ \A p \in Procs :
       (proc[p].pc \in {"generateSaleNumber", "insertSale"})
         ~> (proc[p].pc \notin {"generateSaleNumber", "insertSale"})

\* a sale inserted at the second attempt, after a duplicate-key rejection
C30_Witness ==
  \E p \in Procs :
    /\ proc[p].pc = "createItems" /\ proc[p].attempts = 1
    /\ \E r, o \in sale_numbers :
         r.id = proc[p].saleId /\ o.id # r.id /\ o.day = r.day
           /\ r.sequence = o.sequence + 1

====
